---- MODULE Spec2Model ----
(***************************************************************************)
(* Model of utils.py: the training / evaluation helpers of the repository. *)
(*                                                                         *)
(* Python numbers are modelled as exact rationals [num, den] (den > 0, in  *)
(* lowest terms), so that "/" is a real division and not the identity.     *)
(* Floating-point rounding is not modelled.                                *)
(***************************************************************************)
EXTENDS Integers, Sequences, FiniteSets

VARIABLES
    meter, hist,        \* an AverageMeter and the updates made since its reset
    cm, acc, ws, sb,    \* one call each of the stand-alone functions
    network,            \* the model: training flag and the no_grad attribute
    model_teacher,      \* the teacher model's training flag
    optimizer, scheduler,
    rec,                \* the recorder made by init_recorder
    pc,                 \* where the running call of train / test / evaluate is
    tr, te, ev,         \* the local variables of train, test, evaluate_accuracy
    trace,              \* the library calls made by the running (or last) call
    ncalls,             \* how often each record_* function has been called
    ret                 \* the outcome of the last call that ended

pureVars == <<meter, hist, cm, acc, ws, sb>>
harnessVars == <<network, model_teacher, optimizer, scheduler, rec, pc, tr, te,
                 ev, trace, ncalls, ret>>
vars == <<pureVars, harnessVars>>

---------------------------------------------------------------------------
(* Exact arithmetic *)

Abs(x) == IF x < 0 THEN -x ELSE x

RECURSIVE Gcd(_, _)
Gcd(a, b) == IF b = 0 THEN a ELSE Gcd(b, a % b)

\* the rational n/d, d # 0, in lowest terms with a positive denominator
Rat(n, d) ==
    LET g == Gcd(Abs(n), Abs(d))
        s == IF d < 0 THEN -1 ELSE 1
    IN  [num |-> (s * n) \div g, den |-> (s * d) \div g]

RInt(n) == [num |-> n, den |-> 1]
RZero == RInt(0)
RAdd(a, b) == Rat(a.num * b.den + b.num * a.den, a.den * b.den)
RMul(a, b) == Rat(a.num * b.num, a.den * b.den)
RDiv(a, b) == Rat(a.num * b.den, a.den * b.num)
RLeq(a, b) == a.num * b.den <= b.num * a.den

RECURSIVE SumSeq(_)
SumSeq(s) == IF s = <<>> THEN 0 ELSE Head(s) + SumSeq(Tail(s))

---------------------------------------------------------------------------
(* class AverageMeter *)

MaxVal == 2
MaxN == 2
MaxUpdates == 3

MeterVals == (-1) .. MaxVal
MeterNs == 0 .. MaxN

\* AverageMeter.reset (also the state after __init__)
reset == [val |-> RZero, avg |-> RZero, sum |-> RZero, count |-> 0,
          err |-> "none"]

\* a slip: the average divides by the last n instead of the running count
update_lastn(m, v, n) ==
    LET s == RAdd(m.sum, RMul(v, RInt(n)))
        c == m.count + n
    IN  IF n = 0
        THEN [m EXCEPT !.val = v, !.sum = s, !.count = c,
                       !.err = "ZeroDivisionError"]
        ELSE [val |-> v, sum |-> s, count |-> c, avg |-> RDiv(s, RInt(n)),
              err |-> "none"]

\* AverageMeter.update(val, n): the three assignments happen, then the
\* division; with count = 0 it raises and avg keeps its old value
update(m, v, n) ==
    LET s == RAdd(m.sum, RMul(v, RInt(n)))
        c == m.count + n
    IN  IF c = 0
        THEN [m EXCEPT !.val = v, !.sum = s, !.count = c,
                       !.err = "ZeroDivisionError"]
        ELSE [val |-> v, sum |-> s, count |-> c, avg |-> RDiv(s, RInt(c)),
              err |-> "none"]

MeterReset ==
    /\ meter' = reset
    /\ hist' = <<>>
    /\ UNCHANGED <<cm, acc, ws, sb, harnessVars>>

MeterUpdate ==
    /\ Len(hist) < MaxUpdates
    /\ \E v \in MeterVals, n \in MeterNs :
          /\ meter' = update(meter, RInt(v), n)
          /\ hist' = Append(hist, <<v, n>>)
    /\ UNCHANGED <<cm, acc, ws, sb, harnessVars>>

---------------------------------------------------------------------------
(* compute_confusion_matrix_elements *)

NumLabels == 2
MaxSamples == 3

Labels == 0 .. (NumLabels - 1)
LabelLists == UNION {[1 .. k -> Labels] : k \in 0 .. MaxSamples}

Range(s) == {s[i] : i \in DOMAIN s}
Min(a, b) == IF a < b THEN a ELSE b

\* np.unique(np.concatenate((y_true, y_pred)))
unique_concat(y_true, y_pred) == Range(y_true \o y_pred)

\* a slip: a missed prediction of cls is booked as a true negative
cm_count_fn_as_tn(e, true_label, pred_label, cls) ==
    IF pred_label = cls
    THEN IF true_label = cls THEN [e EXCEPT !.TP = @ + 1]
                             ELSE [e EXCEPT !.FP = @ + 1]
    ELSE [e EXCEPT !.TN = @ + 1]

\* the body of the inner loop for one (true_label, pred_label) and one cls
cm_count(e, true_label, pred_label, cls) ==
    IF true_label = cls
    THEN IF pred_label = cls THEN [e EXCEPT !.TP = @ + 1] ELSE e
    ELSE IF pred_label = cls THEN [e EXCEPT !.FP = @ + 1]
                             ELSE [e EXCEPT !.TN = @ + 1]

\* the outer loop over zip(y_true, y_pred), from position i on
RECURSIVE cm_loop(_, _, _, _, _)
cm_loop(metrics, y_true, y_pred, classes, i) ==
    IF i > Min(Len(y_true), Len(y_pred))
    THEN metrics
    ELSE cm_loop([cls \in classes |->
                     cm_count(metrics[cls], y_true[i], y_pred[i], cls)],
                 y_true, y_pred, classes, i + 1)

compute_confusion_matrix_elements(y_true, y_pred) ==
    LET classes == unique_concat(y_true, y_pred)
        metrics == [cls \in classes |-> [TP |-> 0, TN |-> 0, FP |-> 0]]
    IN  cm_loop(metrics, y_true, y_pred, classes, 1)

NoCall == [called |-> FALSE]

\* the arguments of one call, not yet made
ConfusionArgs ==
    {[called |-> FALSE, y_true |-> y_true, y_pred |-> y_pred, metrics |-> <<>>]
        : y_true \in LabelLists, y_pred \in LabelLists}

ConfusionCall ==
    /\ cm # NoCall /\ ~cm.called
    /\ cm' = [cm EXCEPT !.called = TRUE,
                        !.metrics = compute_confusion_matrix_elements(
                                        cm.y_true, cm.y_pred)]
    /\ UNCHANGED <<meter, hist, acc, ws, sb, harnessVars>>

---------------------------------------------------------------------------
(* accuracy *)

NumClasses == 2
AccMaxBatch == 2

Classes == 1 .. NumClasses
Scores == {0, 1}
Rows == [Classes -> Scores]
\* the labels of the samples: the first two classes (topk treats all
\* classes alike, so the others add nothing)
AccTargets == {c \in Classes : c <= 2}
\* the values of k a caller may ask for, one of them beyond the class count
Ks == 1 .. (NumClasses + 1)
TopkTuples == {<<>>} \cup {<<k>> : k \in Ks}
                    \cup {<<k1, k2>> : k1 \in Ks, k2 \in Ks}

RECURSIVE MaxSeq(_)
MaxSeq(s) == IF Len(s) = 1 THEN s[1]
             ELSE LET m == MaxSeq(Tail(s)) IN IF s[1] > m THEN s[1] ELSE m

\* Tensor.topk(k, largest=True, sorted=True) on one row: k distinct class
\* indices, scores descending, no left-out class scoring higher; which of
\* several equal scores comes first is not specified by the library
topk_row(row, k) ==
    {p \in [1 .. k -> DOMAIN row] :
        /\ \A i, j \in 1 .. k : i < j => (p[i] # p[j] /\ row[p[i]] >= row[p[j]])
        /\ \A c \in DOMAIN row \ Range(p) : \A i \in 1 .. k : row[c] <= row[p[i]]}

\* output.topk(maxk, 1, True, True): one choice of indices per sample
RECURSIVE topk(_, _)
topk(output, maxk) ==
    IF output = <<>> THEN {<<>>}
    ELSE LET n == Len(output)
         IN  {Append(pred, p) : pred \in topk(SubSeq(output, 1, n - 1), maxk),
                                p \in topk_row(output[n], maxk)}

\* a slip: only the best prediction is ever compared
correct_k_top1(pred, target, k) ==
    Cardinality({e \in (1 .. 1) \X DOMAIN target : pred[e[2]][e[1]] = target[e[2]]})

\* correct[:k].reshape(-1).float().sum(): the hits in the first k rows of
\* the transposed prediction matrix
correct_k(pred, target, k) ==
    Cardinality({e \in (1 .. k) \X DOMAIN target : pred[e[2]][e[1]] = target[e[2]]})

AccRaise(e) == [err |-> e, res |-> <<>>, pred |-> <<>>]

\* accuracy(output, target, topk): the set of outcomes, one per choice the
\* library may make among equal scores
accuracy(output, target, topk_) ==
    IF topk_ = <<>> THEN {AccRaise("ValueError")}             \* max(())
    ELSE
    LET maxk == MaxSeq(topk_)
        batch_size == Len(target)
        ncols == IF output = <<>> THEN NumClasses ELSE Cardinality(DOMAIN output[1])
    IN  IF maxk > ncols THEN {AccRaise("RuntimeError")}    \* k out of range
        ELSE IF batch_size = 0 THEN {AccRaise("ZeroDivisionError")}
        ELSE {[err |-> "none",
               pred |-> pred,
               res |-> [j \in DOMAIN topk_ |->
                          RMul(RInt(correct_k(pred, target, topk_[j])),
                               Rat(100, batch_size))]]
              : pred \in topk(output, maxk)}

\* the arguments of one call, not yet made
AccuracyArgs ==
    {[called |-> FALSE, output |-> output, target |-> target, topk |-> topk_,
      err |-> "none", res |-> <<>>, pred |-> <<>>]
        : output \in UNION {[1 .. b -> Rows] : b \in 0 .. AccMaxBatch},
          target \in UNION {[1 .. b -> AccTargets] : b \in 0 .. AccMaxBatch},
          topk_ \in TopkTuples}

AccuracyCall ==
    /\ acc # NoCall /\ ~acc.called
    /\ \E r \in accuracy(acc.output, acc.target, acc.topk) :
          acc' = [acc EXCEPT !.called = TRUE, !.err = r.err, !.res = r.res,
                             !.pred = r.pred]
    /\ UNCHANGED <<meter, hist, cm, ws, sb, harnessVars>>

---------------------------------------------------------------------------
(* class WeightedSubset *)

DatasetLen == 3
MaxSubset == 2

\* the wrapped dataset: sample 10 + i at position i (positions from 0)
Dataset == [i \in 1 .. DatasetLen |-> 9 + i]
WeightVals == {5, 7}
IndexLists == UNION {[1 .. k -> 0 .. (DatasetLen - 1)] : k \in 0 .. MaxSubset}
WeightLists == UNION {[1 .. k -> WeightVals] : k \in 0 .. MaxSubset}
Positions == (0 - MaxSubset - 1) .. MaxSubset
PositionLists == UNION {[1 .. k -> Positions] : k \in 0 .. 2}

\* Python / tensor subscripting s[i]: positions from 0, negative ones count
\* from the end
InRange(s, i) == (0 - Len(s)) <= i /\ i < Len(s)
PyGet(s, i) == IF i >= 0 THEN s[i + 1] ELSE s[Len(s) + i + 1]

\* WeightedSubset.__init__
WeightedSubset_init(dataset, indices, weights) ==
    IF Len(indices) = Len(weights)
    THEN [phase |-> "constructed", dataset |-> dataset, indices |-> indices,
          weights |-> weights, how |-> "none", idx |-> <<>>, err |-> "none", ret |-> <<>>]
    ELSE [phase |-> "AssertionError", dataset |-> dataset, indices |-> indices,
          weights |-> weights, how |-> "none", idx |-> <<>>, err |-> "AssertionError",
          ret |-> <<>>]

\* a slip: the weight is looked up by the dataset index, not by position
getitem_by_index(self, idx) ==
    <<PyGet(self.dataset, PyGet(self.indices, idx)),
      PyGet(self.weights, PyGet(self.indices, idx) % Len(self.weights))>>

\* WeightedSubset.__getitem__ for an integer position
getitem(self, idx) ==
    <<PyGet(self.dataset, PyGet(self.indices, idx)), PyGet(self.weights, idx)>>

\* WeightedSubset.__getitem__ for a list of positions
getitem_list(self, idx) ==
    <<[j \in DOMAIN idx |-> PyGet(self.dataset, PyGet(self.indices, idx[j]))],
      [j \in DOMAIN idx |-> PyGet(self.weights, idx[j])]>>

WeightedSubsetArgs ==
    {[phase |-> "args", dataset |-> Dataset, indices |-> indices,
      weights |-> weights, how |-> "none", idx |-> <<>>, err |-> "none", ret |-> <<>>]
        : indices \in IndexLists, weights \in WeightLists}

WeightedSubsetNew ==
    /\ ws # NoCall /\ ws.phase = "args"
    /\ ws' = WeightedSubset_init(ws.dataset, ws.indices, ws.weights)
    /\ UNCHANGED <<meter, hist, cm, acc, sb, harnessVars>>

WeightedSubsetGetItem ==
    /\ ws # NoCall /\ ws.phase = "constructed"
    /\ \E idx \in Positions :
          ws' = IF InRange(ws.indices, idx)
                THEN [ws EXCEPT !.how = "int", !.idx = idx, !.err = "none",
                                !.ret = getitem(ws, idx)]
                ELSE [ws EXCEPT !.how = "int", !.idx = idx,
                                !.err = "IndexError", !.ret = <<>>]
    /\ UNCHANGED <<meter, hist, cm, acc, sb, harnessVars>>

WeightedSubsetGetItemList ==
    /\ ws # NoCall /\ ws.phase = "constructed"
    /\ \E idx \in PositionLists :
          ws' = IF \A j \in DOMAIN idx : InRange(ws.indices, idx[j])
                THEN [ws EXCEPT !.how = "list", !.idx = idx, !.err = "none",
                                !.ret = getitem_list(ws, idx)]
                ELSE [ws EXCEPT !.how = "list", !.idx = idx,
                                !.err = "IndexError", !.ret = <<>>]
    /\ UNCHANGED <<meter, hist, cm, acc, sb, harnessVars>>

---------------------------------------------------------------------------
(* str_to_bool *)

\* strings are sequences of one-character strings
Upper(c) ==
    CASE c = "y" -> "Y" [] c = "e" -> "E" [] c = "s" -> "S" [] c = "t" -> "T"
      [] c = "r" -> "R" [] c = "u" -> "U" [] c = "n" -> "N" [] c = "o" -> "O"
      [] c = "f" -> "F" [] c = "a" -> "A" [] c = "l" -> "L" [] OTHER -> c

\* str.lower() on one character
lower_char(c) ==
    CASE c = "Y" -> "y" [] c = "E" -> "e" [] c = "S" -> "s" [] c = "T" -> "t"
      [] c = "R" -> "r" [] c = "U" -> "u" [] c = "N" -> "n" [] c = "O" -> "o"
      [] c = "F" -> "f" [] c = "A" -> "a" [] c = "L" -> "l" [] OTHER -> c

\* a slip: no case folding
lower_identity(v) == v

\* str.lower()
lower(v) == [i \in DOMAIN v |-> lower_char(v[i])]

TrueWords == {<<"y", "e", "s">>, <<"t", "r", "u", "e">>, <<"t">>, <<"y">>,
              <<"1">>}
FalseWords == {<<"n", "o">>, <<"f", "a", "l", "s", "e">>, <<"f">>, <<"n">>,
               <<"0">>}
\* strings that are neither
OtherWords == {<<>>, <<"y", "e">>, <<"o", "n">>, <<"o", "f", "f">>, <<"2">>,
               <<"n", "o", "n", "e">>, <<"t", "r", "u", "e", "1">>,
               <<"1", "0">>, <<" ", "n", "o">>}

\* every spelling of a word in upper and lower case letters
CaseVariants(w) ==
    {v \in [DOMAIN w -> {w[i] : i \in DOMAIN w} \cup {Upper(w[i]) : i \in DOMAIN w}] :
        \A i \in DOMAIN w : v[i] \in {w[i], Upper(w[i])}}

Return(b) == [kind |-> "return", value |-> b]
Raise(exc, msg) == [kind |-> "raise", exc |-> exc, msg |-> msg]

str_to_bool(v) ==
    IF v.type = "bool" THEN Return(v.b)
    ELSE IF v.type # "str"
    THEN Raise("AttributeError", "no attribute 'lower'")
    ELSE IF lower(v.s) \in TrueWords THEN Return(TRUE)
    ELSE IF lower(v.s) \in FalseWords THEN Return(FALSE)
    ELSE Raise("ArgumentTypeError", "Boolean value expected.")

Str(s_) == [type |-> "str", s |-> s_]

StrToBoolArgs ==
    {[type |-> "bool", b |-> b] : b \in BOOLEAN}
    \cup {[type |-> "NoneType"]}
    \cup {Str(s_) : s_ \in UNION {CaseVariants(w)
                        : w \in TrueWords \cup FalseWords \cup OtherWords}}

StrToBoolCall ==
    /\ sb # NoCall /\ ~sb.called
    /\ sb' = [sb EXCEPT !.called = TRUE, !.out = str_to_bool(sb.v)]
    /\ UNCHANGED <<meter, hist, cm, acc, ws, harnessVars>>

---------------------------------------------------------------------------
(* the recorder: init_recorder, record_train_stats, record_test_stats,      *)
(* record_ckpt                                                              *)

MaxCalls == 3

init_recorder ==
    [train_step |-> <<>>, train_loss |-> <<>>, train_acc |-> <<>>, lr |-> <<>>,
     test_step |-> <<>>, test_loss |-> <<>>, test_acc |-> <<>>, ckpts |-> <<>>]

\* a slip: the learning rate is not appended
record_train_stats_nolr(r, step, loss, acc_, lr) ==
    [r EXCEPT !.train_step = Append(@, step), !.train_loss = Append(@, loss),
              !.train_acc = Append(@, acc_)]

record_train_stats(r, step, loss, acc_, lr) ==
    [r EXCEPT !.train_step = Append(@, step), !.train_loss = Append(@, loss),
              !.train_acc = Append(@, acc_), !.lr = Append(@, lr)]

record_test_stats(r, step, loss, acc_) ==
    [r EXCEPT !.test_step = Append(@, step), !.test_loss = Append(@, loss),
              !.test_acc = Append(@, acc_)]

record_ckpt(r, step) == [r EXCEPT !.ckpts = Append(@, step)]

\* the arguments a caller passes to the recorder
RecSteps == 0 .. (MaxCalls - 1)
RecLosses == {RInt(3), Rat(1, 2)}
RecAccs == {RInt(50)}
RecLrs == {1}

NumRecorded == Len(rec.train_step) + Len(rec.test_step) + Len(rec.ckpts)

RecordTrainStats ==
    /\ pc = "idle" /\ NumRecorded < MaxCalls
    /\ \E step \in RecSteps, loss \in RecLosses, acc_ \in RecAccs, lr \in RecLrs :
          rec' = record_train_stats(rec, step, loss, acc_, lr)
    /\ ncalls' = [ncalls EXCEPT !.train = @ + 1]
    /\ UNCHANGED <<pureVars, network, model_teacher, optimizer, scheduler, pc,
                   tr, te, ev, trace, ret>>

RecordTestStats ==
    /\ pc = "idle" /\ NumRecorded < MaxCalls
    /\ \E step \in RecSteps, loss \in RecLosses, acc_ \in RecAccs :
          rec' = record_test_stats(rec, step, loss, acc_)
    /\ ncalls' = [ncalls EXCEPT !.test = @ + 1]
    /\ UNCHANGED <<pureVars, network, model_teacher, optimizer, scheduler, pc,
                   tr, te, ev, trace, ret>>

RecordCkpt ==
    /\ pc = "idle" /\ NumRecorded < MaxCalls
    /\ \E step \in RecSteps : rec' = record_ckpt(rec, step)
    /\ ncalls' = [ncalls EXCEPT !.ckpt = @ + 1]
    /\ UNCHANGED <<pureVars, network, model_teacher, optimizer, scheduler, pc,
                   tr, te, ev, trace, ret>>

---------------------------------------------------------------------------
(* data: what a loader yields *)

MaxBatches == 2
MaxEpochs == 1

\* a sample is known by the logits the (deterministic) network computes for
\* it and by its label; two classes
Samples == {[logits |-> <<1, 0>>, label |-> 1], [logits |-> <<1, 0>>, label |-> 2],
            [logits |-> <<1, 1>>, label |-> 1]}
BatchSizes == {1, 2}
Batches == UNION {[1 .. n -> Samples] : n \in BatchSizes}
\* the values a distillation loss may take, and the sample weights
LossVals == {1, 2}
SampleWeights == {1, 2}

\* the criterion the caller passes, per sample (reduction='none'): here a
\* margin loss, 1 + (highest score - score of the label)
criterion(output, target) ==
    [j \in DOMAIN output |->
        1 + MaxSeq(output[j]) - output[j][target[j]]]

Logits(batch) == [j \in DOMAIN batch |-> batch[j].logits]
Targets(batch) == [j \in DOMAIN batch |-> batch[j].label]

Event(op, i) == [op |-> op, batch |-> i]

---------------------------------------------------------------------------
(* calls *)

\* no call is running: no local variables, and no outcome while one runs
NoFrame == [active |-> FALSE]
NoReturn == [kind |-> "none", call |-> "none"]

\* the caller has the outcome of the call that ended; its local variables
\* are gone
Continue ==
    /\ pc = "returned"
    /\ pc' = "idle"
    /\ tr' = NoFrame /\ te' = NoFrame /\ ev' = NoFrame
    /\ trace' = <<>>
    /\ ret' = NoReturn
    /\ UNCHANGED <<pureVars, ncalls, network, model_teacher, optimizer,
                   scheduler, rec>>

---------------------------------------------------------------------------
(* train *)

\* torch.sum(criterion(output, target) * weights) / torch.sum(weights)
weighted_loss(c, w) ==
    Rat(SumSeq([j \in DOMAIN c |-> c[j] * w[j]]), SumSeq(w))

\* criterion(output, target).mean()
mean_loss(c) == Rat(SumSeq(c), Len(c))

\* train(), up to the loop: three fresh meters, network.train(),
\* model_teacher.eval() when there is a teacher
TrainCall ==
    /\ pc = "idle" /\ Len(rec.train_step) < MaxEpochs
    /\ \E if_weighted \in BOOLEAN, has_teacher \in BOOLEAN :
          /\ tr' = [active |-> TRUE, if_weighted |-> if_weighted,
                    has_teacher |-> has_teacher, epoch |-> Len(rec.train_step),
                    i |-> -1, contents |-> <<>>, output |-> <<>>,
                    loss |-> RZero, losses |-> reset, top1 |-> reset,
                    \* bookkeeping: the losses and accuracies computed so far
                    n_seen |-> 0, loss_seen |-> RZero, acc_seen |-> RZero]
          /\ model_teacher' = IF has_teacher THEN [training |-> FALSE]
                                             ELSE model_teacher
    /\ network' = [network EXCEPT !.training = TRUE]
    /\ trace' = trace
    /\ pc' = "train_for"
    /\ UNCHANGED <<pureVars, ncalls, optimizer, scheduler, rec, te, ev, ret>>

\* for i, contents in enumerate(train_loader): the next batch, or the end
TrainFor ==
    /\ pc = "train_for"
    /\ \/ /\ tr.i + 1 < MaxBatches
          /\ \E batch \in Batches :
                tr' = [tr EXCEPT !.i = @ + 1, !.contents = batch]
          /\ pc' = "train_zero_grad"
       \/ /\ pc' = "train_scheduler"
          /\ tr' = tr
    /\ UNCHANGED <<pureVars, ncalls, network, model_teacher, optimizer, scheduler, rec,
                   te, ev, trace, ret>>

TrainZeroGrad ==
    /\ pc = "train_zero_grad"
    /\ trace' = Append(trace, Event("optimizer.zero_grad", tr.i))
    /\ pc' = "train_forward"
    /\ UNCHANGED <<pureVars, ncalls, network, model_teacher, optimizer, scheduler, rec,
                   tr, te, ev, ret>>

\* output = network(input)
TrainForward ==
    /\ pc = "train_forward"
    /\ tr' = [tr EXCEPT !.output = Logits(tr.contents)]
    /\ trace' = Append(trace, Event("network", tr.i))
    /\ pc' = "train_loss"
    /\ UNCHANGED <<pureVars, ncalls, network, model_teacher, optimizer, scheduler, rec,
                   te, ev, ret>>

\* the loss of one batch and what is done with it: losses.update in the
\* teacher and the plain branch, nothing in the weighted branch
train_loss_step(t, loss) ==
    [t EXCEPT !.loss = loss,
              !.losses = IF t.if_weighted THEN @
                         ELSE update(t.losses, loss, Len(t.contents)),
              !.n_seen = @ + Len(t.contents),
              !.loss_seen = RAdd(@, RMul(loss, RInt(Len(t.contents))))]

TrainLoss ==
    /\ pc = "train_loss"
    /\ LET n == Len(tr.contents)
           c == criterion(tr.output, Targets(tr.contents))
       IN  \/ /\ tr.if_weighted
              \* weights = contents[1]
              /\ \E w \in [1 .. n -> SampleWeights] :
                    tr' = train_loss_step(tr, weighted_loss(c, w))
           \/ /\ ~tr.if_weighted /\ tr.has_teacher
              \* output_teacher = model_teacher(input); criterion(output,
              \* output_teacher) is a scalar
              /\ \E l \in LossVals : tr' = train_loss_step(tr, RInt(l))
           \/ /\ ~tr.if_weighted /\ ~tr.has_teacher
              /\ tr' = train_loss_step(tr, mean_loss(c))
    /\ trace' = Append(trace, Event("criterion", tr.i))
    /\ pc' = "train_accuracy"
    /\ UNCHANGED <<pureVars, ncalls, network, model_teacher, optimizer, scheduler, rec,
                   te, ev, ret>>

\* prec1 = accuracy(output.data, target, topk=(1,))[0]; top1.update(...)
TrainAccuracy ==
    /\ pc = "train_accuracy"
    /\ \E r \in accuracy(tr.output, Targets(tr.contents), <<1>>) :
          tr' = [tr EXCEPT !.top1 = update(@, r.res[1], Len(tr.contents)),
                           !.acc_seen = RAdd(@, RMul(r.res[1],
                                                     RInt(Len(tr.contents)))),
                           !.contents = <<>>, !.output = <<>>]
    /\ pc' = "train_backward"
    /\ UNCHANGED <<pureVars, ncalls, network, model_teacher, optimizer, scheduler, rec,
                   te, ev, trace, ret>>

TrainBackward ==
    /\ pc = "train_backward"
    /\ trace' = Append(trace, Event("loss.backward", tr.i))
    /\ pc' = "train_step"
    /\ UNCHANGED <<pureVars, ncalls, network, model_teacher, optimizer, scheduler, rec,
                   tr, te, ev, ret>>

\* scheduler.step(): the scheduler moves on and sets the optimizer's rate;
\* a learning rate is known by the scheduler step that set it
scheduler_step(sch) == [sch EXCEPT !.last_epoch = @ + 1]

\* a slip: scheduler.step() indented into the batch loop
TrainOptimizerStep_sched ==
    /\ pc = "train_step"
    /\ trace' = trace \o <<Event("optimizer.step", tr.i),
                            Event("scheduler.step", tr.i)>>
    /\ pc' = "train_for"
    /\ UNCHANGED <<pureVars, ncalls, network, model_teacher, optimizer, scheduler, rec,
                   tr, te, ev, ret>>

\* optimizer.step(), then the timing and logging, which change nothing here
TrainOptimizerStep ==
    /\ pc = "train_step"
    /\ trace' = Append(trace, Event("optimizer.step", tr.i))
    /\ pc' = "train_for"
    /\ UNCHANGED <<pureVars, ncalls, network, model_teacher, optimizer, scheduler, rec,
                   tr, te, ev, ret>>

TrainSchedulerStep ==
    /\ pc = "train_scheduler"
    /\ scheduler' = scheduler_step(scheduler)
    /\ optimizer' = [optimizer EXCEPT !.lr = scheduler.last_epoch + 1]
    /\ trace' = Append(trace, Event("scheduler.step", -1))
    /\ pc' = "train_record"
    /\ UNCHANGED <<pureVars, ncalls, network, model_teacher, rec, tr, te, ev, ret>>

\* record_train_stats(rec, epoch, losses.avg, top1.avg, lr) and return
TrainRecord ==
    /\ pc = "train_record"
    /\ rec' = record_train_stats(rec, tr.epoch, tr.losses.avg, tr.top1.avg,
                                 optimizer.lr)
    /\ trace' = Append(trace, Event("record_train_stats", -1))
    /\ ret' = [kind |-> "return", call |-> "train"]
    /\ pc' = "returned"
    /\ ncalls' = [ncalls EXCEPT !.train = @ + 1]
    /\ UNCHANGED <<pureVars, network, model_teacher, optimizer, scheduler, tr,
                   te, ev>>

---------------------------------------------------------------------------
(* test and evaluate_accuracy *)

Loaders == UNION {[1 .. b -> Batches] : b \in 0 .. MaxBatches}

FwdEvent(op, i, training) == [op |-> op, batch |-> i, training |-> training]

\* Tensor.argmax on one row: the first of the highest-scoring classes
argmax(row) ==
    CHOOSE c \in DOMAIN row :
        /\ \A d \in DOMAIN row : row[d] <= row[c]
        /\ \A d \in DOMAIN row : row[d] = row[c] => c <= d

\* test(), up to the loop
TestCall ==
    /\ pc = "idle" /\ Len(rec.test_step) < MaxEpochs
    /\ \E test_loader \in Loaders :
          te' = [active |-> TRUE, epoch |-> Len(rec.test_step),
                 test_loader |-> test_loader, i |-> -1,
                 losses |-> reset, top1 |-> reset,
                 test_acc |-> RZero, true_labels |-> <<>>, model_preds |-> <<>>,
                 spe |-> <<>>]
    /\ network' = [training |-> FALSE, no_grad |-> "True"]
    /\ trace' = trace
    /\ pc' = "test_for"
    /\ UNCHANGED <<pureVars, ncalls, model_teacher, optimizer, scheduler, rec,
                   tr, ev, ret>>

TestFor ==
    /\ pc = "test_for"
    /\ IF te.i + 1 < Len(te.test_loader)
       THEN /\ te' = [te EXCEPT !.i = @ + 1]
            /\ pc' = "test_body"
       ELSE /\ te' = te
            /\ pc' = "test_evaluate"
    /\ UNCHANGED <<pureVars, ncalls, network, model_teacher, optimizer,
                   scheduler, rec, tr, ev, trace, ret>>

\* a slip: top1.update(prec1.item()) with the default n = 1
test_update_n1(t, loss, prec1, n) ==
    [t EXCEPT !.losses = update(@, loss, n), !.top1 = update(@, prec1, 1)]

\* losses.update(loss, input.size(0)); top1.update(prec1, input.size(0))
test_update(t, loss, prec1, n) ==
    [t EXCEPT !.losses = update(@, loss, n), !.top1 = update(@, prec1, n)]

\* the body of the loop of test(): forward pass, loss, accuracy, meters
TestBody ==
    /\ pc = "test_body"
    /\ LET batch == te.test_loader[te.i + 1]
           n == Len(batch)
           loss == mean_loss(criterion(Logits(batch), Targets(batch)))
       IN  \E r \in accuracy(Logits(batch), Targets(batch), <<1>>) :
              te' = test_update(te, loss, r.res[1], n)
    /\ trace' = Append(trace, FwdEvent("test:network", te.i, network.training))
    /\ pc' = "test_for"
    /\ UNCHANGED <<pureVars, ncalls, network, model_teacher, optimizer,
                   scheduler, rec, tr, ev, ret>>

evaluate_frame(caller, data_iter) ==
    [active |-> TRUE, caller |-> caller, data_iter |-> data_iter, j |-> -1,
     acc_sum |-> 0, n |-> 0, true_labels |-> <<>>, model_preds |-> <<>>]

\* test() calls evaluate_accuracy(test_loader, network, args.device)
TestEvaluate ==
    /\ pc = "test_evaluate"
    /\ ev' = evaluate_frame("test", te.test_loader)
    /\ pc' = "eval_enter"
    /\ UNCHANGED <<pureVars, ncalls, network, model_teacher, optimizer,
                   scheduler, rec, tr, te, trace, ret>>

\* evaluate_accuracy called on its own
EvaluateCall ==
    /\ pc = "idle" /\ Len(rec.test_step) < MaxEpochs
    /\ \E data_iter \in Loaders : ev' = evaluate_frame("direct", data_iter)
    /\ trace' = trace
    /\ pc' = "eval_enter"
    /\ UNCHANGED <<pureVars, ncalls, network, model_teacher, optimizer,
                   scheduler, rec, tr, te, ret>>

\* net.eval()
EvaluateEnter ==
    /\ pc = "eval_enter"
    /\ network' = [network EXCEPT !.training = FALSE]
    /\ trace' = Append(trace, Event("net.eval", -1))
    /\ pc' = "eval_for"
    /\ UNCHANGED <<pureVars, ncalls, model_teacher, optimizer, scheduler, rec,
                   tr, te, ev, ret>>

EvaluateFor ==
    /\ pc = "eval_for"
    /\ IF ev.j + 1 < Len(ev.data_iter)
       THEN /\ ev' = [ev EXCEPT !.j = @ + 1]
            /\ pc' = "eval_body"
       ELSE /\ ev' = ev
            /\ pc' = "eval_train"
    /\ UNCHANGED <<pureVars, ncalls, network, model_teacher, optimizer,
                   scheduler, rec, tr, te, trace, ret>>

\* integers up to 2^24 are float32 values; beyond, every 2nd, 4th, ... is
Float32Exact == 16777216

RECURSIVE Spacing(_, _)
Spacing(x, s) == IF Abs(x) <= Float32Exact * s THEN s ELSE Spacing(x, 2 * s)

\* int(item.float().cpu().item()): an integer label through float32 and
\* back, rounded to the nearest float32, ties to the even one
int_via_float(x) ==
    LET s == Spacing(x, 1)
        q == x \div s
        r == x % s
    IN  IF 2 * r < s THEN q * s
        ELSE IF 2 * r > s THEN (q + 1) * s
        ELSE IF q % 2 = 0 THEN q * s ELSE (q + 1) * s

\* the body of the loop of evaluate_accuracy
evaluate_body(e, batch) ==
    LET model_pred == [k \in DOMAIN batch |-> argmax(batch[k].logits)]
        true_label == Targets(batch)
    IN  [e EXCEPT !.acc_sum = @ + Cardinality({k \in DOMAIN batch :
                                                 model_pred[k] = true_label[k]}),
                  !.true_labels = @ \o [k \in DOMAIN batch |->
                                           int_via_float(true_label[k])],
                  !.model_preds = @ \o [k \in DOMAIN batch |->
                                           int_via_float(model_pred[k])],
                  !.n = @ + Len(batch)]

EvaluateBody ==
    /\ pc = "eval_body"
    /\ ev' = evaluate_body(ev, ev.data_iter[ev.j + 1])
    /\ trace' = Append(trace, FwdEvent("eval:network", ev.j, network.training))
    /\ pc' = "eval_for"
    /\ UNCHANGED <<pureVars, ncalls, network, model_teacher, optimizer,
                   scheduler, rec, tr, te, ret>>

\* a slip: the network is left in eval mode
EvaluateTrain_skip ==
    /\ pc = "eval_train"
    /\ network' = network
    /\ trace' = trace
    /\ pc' = "eval_return"
    /\ UNCHANGED <<pureVars, ncalls, model_teacher, optimizer, scheduler, rec,
                   tr, te, ev, ret>>

\* net.train()
EvaluateTrain ==
    /\ pc = "eval_train"
    /\ network' = [network EXCEPT !.training = TRUE]
    /\ trace' = Append(trace, Event("net.train", -1))
    /\ pc' = "eval_return"
    /\ UNCHANGED <<pureVars, ncalls, model_teacher, optimizer, scheduler, rec,
                   tr, te, ev, ret>>

\* return acc_sum / n, true_labels, model_preds; with n = 0 the division
\* raises, and the exception leaves test() as well
EvaluateReturn ==
    /\ pc = "eval_return"
    /\ IF ev.n = 0
       THEN /\ ret' = [kind |-> "raise", call |-> IF ev.caller = "test"
                                                  THEN "test"
                                                  ELSE "evaluate_accuracy",
                       exc |-> "ZeroDivisionError"]
            /\ pc' = "returned"
            /\ te' = te
       ELSE IF ev.caller = "test"
       THEN /\ te' = [te EXCEPT !.test_acc = Rat(ev.acc_sum, ev.n),
                                !.true_labels = ev.true_labels,
                                !.model_preds = ev.model_preds]
            /\ pc' = "test_metrics"
            /\ ret' = ret
       ELSE /\ ret' = [kind |-> "return", call |-> "evaluate_accuracy",
                       value |-> <<Rat(ev.acc_sum, ev.n), ev.true_labels,
                                   ev.model_preds>>]
            /\ pc' = "returned"
            /\ te' = te
    /\ UNCHANGED <<pureVars, ncalls, network, model_teacher, optimizer,
                   scheduler, rec, tr, ev, trace>>

\* the rest of test(): the library metrics (printed only), the confusion
\* counts, network.no_grad = False, record_test_stats, return top1.avg
TestFinish ==
    /\ pc = "test_metrics"
    /\ te' = [te EXCEPT !.spe = compute_confusion_matrix_elements(
                                    te.true_labels, te.model_preds)]
    /\ network' = [network EXCEPT !.no_grad = "False"]
    /\ rec' = record_test_stats(rec, te.epoch, te.losses.avg, te.top1.avg)
    /\ ncalls' = [ncalls EXCEPT !.test = @ + 1]
    /\ ret' = [kind |-> "return", call |-> "test", value |-> te.top1.avg]
    /\ pc' = "returned"
    /\ UNCHANGED <<pureVars, model_teacher, optimizer, scheduler, tr, ev,
                   trace>>

---------------------------------------------------------------------------

PureIdle ==
    /\ meter = reset /\ hist = <<>>
    /\ cm = NoCall /\ acc = NoCall /\ ws = NoCall /\ sb = NoCall

\* a fresh module is in training mode and has no no_grad attribute yet
HarnessIdle ==
    /\ network = [training |-> TRUE, no_grad |-> "unset"]
    /\ model_teacher = [training |-> TRUE]
    /\ optimizer = [lr |-> 0]
    /\ scheduler = [last_epoch |-> 0]
    /\ rec = init_recorder
    /\ pc = "idle"
    /\ tr = NoFrame /\ te = NoFrame /\ ev = NoFrame
    /\ trace = <<>>
    /\ ncalls = [train |-> 0, test |-> 0, ckpt |-> 0]
    /\ ret = NoReturn

Init == PureIdle /\ HarnessIdle

NextMeter == MeterReset \/ MeterUpdate
SpecMeter == Init /\ [][NextMeter]_vars

InitConfusion ==
    /\ cm \in ConfusionArgs
    /\ meter = reset /\ hist = <<>>
    /\ acc = NoCall /\ ws = NoCall /\ sb = NoCall
    /\ HarnessIdle
NextConfusion == ConfusionCall
SpecConfusion == InitConfusion /\ [][NextConfusion]_vars

InitAccuracy ==
    /\ acc \in {a \in AccuracyArgs : Len(a.output) = Len(a.target)}
    /\ meter = reset /\ hist = <<>>
    /\ cm = NoCall /\ ws = NoCall /\ sb = NoCall
    /\ HarnessIdle
NextAccuracy == AccuracyCall
SpecAccuracy == InitAccuracy /\ [][NextAccuracy]_vars

InitSubset ==
    /\ ws \in WeightedSubsetArgs
    /\ meter = reset /\ hist = <<>>
    /\ cm = NoCall /\ acc = NoCall /\ sb = NoCall
    /\ HarnessIdle
NextSubset == WeightedSubsetNew \/ WeightedSubsetGetItem
                 \/ WeightedSubsetGetItemList
SpecSubset == InitSubset /\ [][NextSubset]_vars

InitStrToBool ==
    /\ sb \in {[called |-> FALSE, v |-> v, out |-> <<>>] : v \in StrToBoolArgs}
    /\ meter = reset /\ hist = <<>>
    /\ cm = NoCall /\ acc = NoCall /\ ws = NoCall
    /\ HarnessIdle
NextStrToBool == StrToBoolCall
SpecStrToBool == InitStrToBool /\ [][NextStrToBool]_vars

NextRecorder == RecordTrainStats \/ RecordTestStats \/ RecordCkpt
SpecRecorder == Init /\ [][NextRecorder]_vars

NextTrain == TrainCall \/ TrainFor \/ TrainZeroGrad \/ TrainForward
                \/ TrainLoss \/ TrainAccuracy \/ TrainBackward
                \/ TrainOptimizerStep \/ TrainSchedulerStep \/ TrainRecord
                \/ Continue
SpecTrain == Init /\ [][NextTrain]_vars

NextTest == TestCall \/ TestFor \/ TestBody \/ TestEvaluate \/ EvaluateCall
               \/ EvaluateEnter \/ EvaluateFor \/ EvaluateBody
               \/ EvaluateTrain \/ EvaluateReturn \/ TestFinish \/ Continue
SpecTest == Init /\ [][NextTest]_vars

---------------------------------------------------------------------------
(* C3: AverageMeter *)

RECURSIVE HistCount(_)
HistCount(h) == IF h = <<>> THEN 0 ELSE Head(h)[2] + HistCount(Tail(h))

RECURSIVE HistSum(_)
HistSum(h) == IF h = <<>> THEN 0 ELSE Head(h)[1] * Head(h)[2] + HistSum(Tail(h))

AllPositive(h) == \A i \in DOMAIN h : h[i][2] >= 1

\* C3: after construction or reset all four fields are 0; after a non-empty
\* sequence of update(v, n) calls with every n >= 1, count is the sum of the
\* n, sum is the sum of the v*n, val is the last v and avg * count = sum.
C3_MeterInvariant ==
    /\ hist = <<>> =>
          /\ meter.val = RZero /\ meter.avg = RZero
          /\ meter.sum = RZero /\ meter.count = 0
    /\ (hist # <<>> /\ AllPositive(hist)) =>
          /\ meter.count = HistCount(hist)
          /\ meter.sum = RInt(HistSum(hist))
          /\ meter.val = RInt(hist[Len(hist)][1])
          /\ RMul(meter.avg, RInt(meter.count)) = meter.sum
          /\ meter.avg = Rat(HistSum(hist), HistCount(hist))
          /\ meter.err = "none"

C3_Witness ==
    /\ Len(hist) >= 2 /\ AllPositive(hist)
    /\ hist[1][2] # hist[2][2]
    /\ meter.avg.den # 1
    /\ meter.avg # meter.val

---------------------------------------------------------------------------
(* C2: compute_confusion_matrix_elements *)

CountPos(y_true, y_pred, P(_, _)) ==
    Cardinality({i \in DOMAIN y_true : P(y_true[i], y_pred[i])})

\* C2: for equal-length lists the keys are exactly the labels that occur,
\* and per class c: TP = #(true = c, pred = c), FP = #(true # c, pred = c),
\* TN = #(true # c, pred # c), so TP + FP + TN = N - #(true = c, pred # c).
C2_ConfusionCounts ==
    (cm.called /\ Len(cm.y_true) = Len(cm.y_pred)) =>
        LET yt == cm.y_true
            yp == cm.y_pred
            N  == Len(yt)
        IN  /\ DOMAIN cm.metrics = Range(yt) \cup Range(yp)
            /\ \A c \in DOMAIN cm.metrics :
                  LET TPc(t, p) == t = c /\ p = c
                      FPc(t, p) == t # c /\ p = c
                      TNc(t, p) == t # c /\ p # c
                      FNc(t, p) == t = c /\ p # c
                      e == cm.metrics[c]
                  IN  /\ DOMAIN e = {"TP", "TN", "FP"}
                      /\ e.TP = CountPos(yt, yp, TPc)
                      /\ e.FP = CountPos(yt, yp, FPc)
                      /\ e.TN = CountPos(yt, yp, TNc)
                      /\ e.TP + e.FP + e.TN = N - CountPos(yt, yp, FNc)

\* a call where some class has a false negative, a false positive, a true
\* positive and a true negative at once
C2_Witness ==
    /\ cm.called
    /\ Len(cm.y_true) = Len(cm.y_pred)
    /\ \E c \in DOMAIN cm.metrics :
          /\ cm.metrics[c].TP + cm.metrics[c].FP + cm.metrics[c].TN
                < Len(cm.y_true)
          /\ cm.metrics[c].TP > 0
          /\ cm.metrics[c].FP > 0

---------------------------------------------------------------------------
(* C4: accuracy *)

\* the classes scoring at least / strictly more than class t in a row
Above(row, t) == {c \in DOMAIN row : c # t /\ row[c] > row[t]}
AtLeast(row, t) == {c \in DOMAIN row : c # t /\ row[c] >= row[t]}

\* S is a set of k highest-scoring classes of the row
IsTopSet(row, S, k) ==
    /\ Cardinality(S) = k
    /\ \A c \in DOMAIN row \ S : \A d \in S : row[c] <= row[d]

\* C4: accuracy returns one value per k in topk, in that order; the value
\* for k is 100 * (number of samples whose target is among the k
\* highest-scoring classes) / batch_size; values grow with k and lie in
\* [0, 100].
C4_TopkAccuracy ==
    (acc.called /\ acc.err = "none") =>
        LET B == Len(acc.target)
            TopSet(i, k) == {acc.pred[i][j] : j \in 1 .. k}
            Hits(k) == {i \in 1 .. B : acc.target[i] \in TopSet(i, k)}
        IN  /\ B >= 1
            /\ Len(acc.res) = Len(acc.topk)
            /\ \A j \in DOMAIN acc.topk :
                  LET k == acc.topk[j]
                  IN  /\ \A i \in 1 .. B : IsTopSet(acc.output[i], TopSet(i, k), k)
                      /\ acc.res[j] = Rat(100 * Cardinality(Hits(k)), B)
                      \* whatever the order among equal scores
                      /\ Cardinality({i \in 1 .. B :
                             Cardinality(AtLeast(acc.output[i], acc.target[i])) < k})
                           <= Cardinality(Hits(k))
                      /\ Cardinality(Hits(k)) <=
                           Cardinality({i \in 1 .. B :
                             Cardinality(Above(acc.output[i], acc.target[i])) < k})
                      /\ RLeq(RZero, acc.res[j]) /\ RLeq(acc.res[j], RInt(100))
            /\ \A j1, j2 \in DOMAIN acc.topk :
                  acc.topk[j1] <= acc.topk[j2] => RLeq(acc.res[j1], acc.res[j2])

\* a batch of two where top-1 and top-2 accuracy differ and are asked for
\* in the order (2, 1)
C4_Witness ==
    /\ acc.called /\ acc.err = "none"
    /\ Len(acc.target) = 2
    /\ acc.topk = <<2, 1>>
    /\ acc.res = <<RInt(100), RInt(50)>>

---------------------------------------------------------------------------
(* C5: WeightedSubset *)

\* C5: an instance exists only when len(indices) = len(weights); for a
\* valid position idx, __getitem__ returns (dataset[indices[idx]],
\* weights[idx]), the weight at the same position as the index used; for a
\* list of positions it returns the samples and the weights at those
\* positions.
C5_WeightFollowsIndex ==
    ws # NoCall =>
        /\ ws.phase = "constructed" => Len(ws.indices) = Len(ws.weights)
        /\ ws.phase = "AssertionError" => Len(ws.indices) # Len(ws.weights)
        /\ (ws.phase = "constructed" /\ ws.how # "none" /\ ws.err = "none") =>
              LET n == Len(ws.indices)
                  \* the position counted from the front, from 1
                  At(i) == IF i >= 0 THEN i + 1 ELSE n + i + 1
                  Sample(i) == ws.dataset[ws.indices[At(i)] + 1]
                  idx == ws.idx
              IN  IF ws.how = "int"
                  THEN ws.ret = <<Sample(idx), ws.weights[At(idx)]>>
                  ELSE /\ Len(ws.ret[1]) = Len(idx)
                       /\ Len(ws.ret[2]) = Len(idx)
                       /\ \A j \in DOMAIN idx :
                             /\ ws.ret[1][j] = Sample(idx[j])
                             /\ ws.ret[2][j] = ws.weights[At(idx[j])]

\* a subset whose two weights differ and whose second entry points at the
\* first sample of the dataset: position and dataset index disagree
C5_Witness ==
    /\ ws # NoCall /\ ws.phase = "constructed"
    /\ Len(ws.indices) = 2
    /\ ws.indices[2] = 0
    /\ ws.weights[1] # ws.weights[2]
    /\ ws.how = "int" /\ ws.idx = 1
    /\ ws.ret = <<ws.dataset[1], ws.weights[2]>>

---------------------------------------------------------------------------
(* C6: str_to_bool *)

\* C6: a boolean is returned unchanged; a string whose lower-case form is
\* one of yes/true/t/y/1 gives True, one of no/false/f/n/0 gives False, any
\* other string raises ArgumentTypeError('Boolean value expected.'); the
\* outcome is the same for every spelling of v in upper and lower case.
C6_StrToBool ==
    (sb # NoCall /\ sb.called) =>
        /\ sb.v.type = "bool" => sb.out = Return(sb.v.b)
        /\ sb.v.type = "str" =>
              LET folded == [i \in DOMAIN sb.v.s |->
                               IF Upper(sb.v.s[i]) = sb.v.s[i]
                               THEN lower_char(sb.v.s[i]) ELSE sb.v.s[i]]
              IN  /\ folded \in TrueWords => sb.out = Return(TRUE)
                  /\ folded \in FalseWords => sb.out = Return(FALSE)
                  /\ folded \notin TrueWords \cup FalseWords =>
                        sb.out = Raise("ArgumentTypeError",
                                       "Boolean value expected.")
                  /\ \A w \in CaseVariants(folded) :
                        str_to_bool(Str(w)) = sb.out

C6_Witness ==
    /\ sb # NoCall /\ sb.called
    /\ sb.v = Str(<<"F", "a", "L", "s", "E">>)
    /\ sb.out = Return(FALSE)

---------------------------------------------------------------------------
(* C9: the recorder *)

Last(s) == s[Len(s)]
IsPrefix(s, t) == Len(s) <= Len(t) /\ \A k \in DOMAIN s : s[k] = t[k]
Grew(s, t) == Len(t) = Len(s) + 1 /\ IsPrefix(s, t)

TrainLists == {"train_step", "train_loss", "train_acc", "lr"}
TestLists == {"test_step", "test_loss", "test_acc"}
CkptLists == {"ckpts"}

RecorderAligned ==
    /\ \A f \in TrainLists : Len(rec[f]) = ncalls.train
    /\ \A f \in TestLists : Len(rec[f]) = ncalls.test
    /\ \A f \in CkptLists : Len(rec[f]) = ncalls.ckpt

RecorderAppends ==
    \A G \in {TrainLists, TestLists, CkptLists} :
        LET called == CASE G = TrainLists -> ncalls'.train # ncalls.train
                        [] G = TestLists -> ncalls'.test # ncalls.test
                        [] G = CkptLists -> ncalls'.ckpt # ncalls.ckpt
        IN  \A f \in G : IF called THEN Grew(rec[f], rec'[f])
                                     ELSE rec'[f] = rec[f]

\* C9: from init_recorder (all eight lists empty) the four train lists have
\* as many entries as record_train_stats calls, the three test lists as
\* many as record_test_stats calls, ckpts as many as record_ckpt calls;
\* each call appends one element to each list of its group and leaves the
\* other lists and all earlier entries as they were.
C9_RecorderListsAligned == [](RecorderAligned) /\ [][RecorderAppends]_vars

C9_Witness ==
    /\ ncalls.train = 1 /\ ncalls.test = 1 /\ ncalls.ckpt = 1
    /\ Len(rec.lr) = 1 /\ Len(rec.test_acc) = 1 /\ Len(rec.ckpts) = 1

---------------------------------------------------------------------------
(* C1: the order of the calls train() makes *)

PerBatch(i) ==
    <<Event("optimizer.zero_grad", i), Event("network", i),
      Event("criterion", i), Event("loss.backward", i),
      Event("optimizer.step", i)>>

RECURSIVE BatchEvents(_)
\* the events of batches 0 .. B-1
BatchEvents(B) == IF B = 0 THEN <<>> ELSE BatchEvents(B - 1) \o PerBatch(B - 1)

EpochEvents(B) ==
    BatchEvents(B) \o <<Event("scheduler.step", -1),
                         Event("record_train_stats", -1)>>

TrainReturned == pc = "returned" /\ ret.call = "train"

\* C1: a call of train() over B batches does, batch by batch in loader
\* order, zero_grad, forward, loss, backward, optimizer.step, then one
\* scheduler.step and only then the append to rec; with B = 0 there is no
\* optimizer call and still one scheduler.step.
C1_TrainCallOrder ==
    tr.active =>
        /\ IsPrefix(trace, EpochEvents(tr.i + 1))
        /\ TrainReturned =>
              /\ trace = EpochEvents(tr.i + 1)
              /\ scheduler.last_epoch = Len(rec.train_step)
              /\ Last(rec.train_step) = tr.epoch
        /\ pc \in {"train_scheduler", "train_record"} =>
              /\ scheduler.last_epoch + (IF pc = "train_scheduler" THEN 1 ELSE 0)
                    = Len(rec.train_step) + 1

C1_Witness ==
    /\ tr.active /\ TrainReturned
    /\ tr.i = 1
    /\ Len(trace) = 12

\* the empty loader: no optimizer call, one scheduler.step
C1_WitnessEmpty ==
    /\ tr.active /\ TrainReturned
    /\ tr.i = -1
    /\ trace = <<Event("scheduler.step", -1), Event("record_train_stats", -1)>>

---------------------------------------------------------------------------
(* C7: the loss train() records *)

\* C7: after a call over a non-empty loader the loss appended to
\* rec.train_loss is the batch-size-weighted mean of the per-batch losses,
\* in all three modes, as the appended accuracy is that of the per-batch
\* accuracies.
C7_RecordedLossIsMean ==
    (tr.active /\ TrainReturned /\ tr.n_seen > 0) =>
        /\ Last(rec.train_loss) = RDiv(tr.loss_seen, RInt(tr.n_seen))
        /\ Last(rec.train_acc) = RDiv(tr.acc_seen, RInt(tr.n_seen))

\* what the code does: the statement holds without sample weights, and
\* with them the recorded loss is 0 whatever the losses were
TrainRecordedLoss ==
    (tr.active /\ TrainReturned /\ tr.n_seen > 0) =>
        /\ ~tr.if_weighted =>
              Last(rec.train_loss) = RDiv(tr.loss_seen, RInt(tr.n_seen))
        /\ tr.if_weighted => Last(rec.train_loss) = RZero
        /\ Last(rec.train_acc) = RDiv(tr.acc_seen, RInt(tr.n_seen))

---------------------------------------------------------------------------
(* C8: the mode of the network around evaluate_accuracy *)

TestReturned == pc = "returned" /\ ret.call = "test" /\ ret.kind = "return"

\* C8: evaluate_accuracy switches to eval mode before its first forward
\* pass, makes every forward pass in eval mode and switches back to
\* training mode before it returns, whatever the mode at the call; after
\* test() returns the network is in training mode with no_grad = False.
C8_EvalModeRestored ==
    /\ ev.active =>
          /\ \A k \in DOMAIN trace :
                trace[k].op = "eval:network" =>
                    /\ ~trace[k].training
                    /\ \E m \in 1 .. (k - 1) : trace[m].op = "net.eval"
          /\ pc = "eval_body" => ~network.training
          /\ pc = "eval_return" => network.training
          /\ (pc \in {"returned", "test_metrics"}) => network.training
    /\ TestReturned => (network.training /\ network.no_grad = "False")

\* test() has returned after forward passes made in eval mode
C8_Witness ==
    /\ TestReturned
    /\ Len(te.test_loader) = 2
    /\ \E k \in DOMAIN trace : trace[k].op = "eval:network" /\ trace[k].batch = 1
    /\ network.training /\ network.no_grad = "False"

---------------------------------------------------------------------------
(* C10: the two evaluation passes of test() *)

RECURSIVE Flatten(_)
Flatten(ss) == IF ss = <<>> THEN <<>> ELSE Head(ss) \o Flatten(Tail(ss))

NumSamples(loader) == Len(Flatten(loader))

\* some sample's highest score is shared by two classes
HasTie(loader) ==
    \E s \in Range(Flatten(loader)) :
        \E c, d \in DOMAIN s.logits :
            /\ c # d /\ s.logits[c] = s.logits[d]
            /\ \A e \in DOMAIN s.logits : s.logits[e] <= s.logits[c]

ListsInLoaderOrder ==
    /\ Len(te.true_labels) = NumSamples(te.test_loader)
    /\ Len(te.model_preds) = NumSamples(te.test_loader)
    /\ te.true_labels = [k \in DOMAIN Flatten(te.test_loader) |->
                            Flatten(te.test_loader)[k].label]

\* C10 as stated: what test() returns and records is 100 times the
\* accuracy of evaluate_accuracy over the same loader, and both returned
\* lists have one entry per sample, in loader order.
C10_PassesAgree ==
    TestReturned =>
        /\ ret.value = RMul(RInt(100), te.test_acc)
        /\ Last(rec.test_acc) = ret.value
        /\ ListsInLoaderOrder

\* C10 amended: the same, for loaders on which no sample's highest score is
\* shared by two classes.
C10_PassesAgreeWithoutTies ==
    TestReturned =>
        /\ ~HasTie(te.test_loader) => ret.value = RMul(RInt(100), te.test_acc)
        /\ Last(rec.test_acc) = ret.value
        /\ ListsInLoaderOrder

\* two batches of different sizes, no ties, some but not all predictions right
C10_Witness ==
    /\ TestReturned
    /\ ~HasTie(te.test_loader)
    /\ Len(te.test_loader) = 2
    /\ Len(te.test_loader[1]) # Len(te.test_loader[2])
    /\ ret.value = Rat(100, 3)
    /\ te.test_acc = Rat(1, 3)

====
